---- MODULE Spec2Model ----
(***************************************************************************)
(* Canvas -> Notion synchronisation: the two upsert engines of the         *)
(* repository over one model of the destination database.                  *)
(*                                                                         *)
(*   sync.py        sync(): notion_query_by_unique, then                   *)
(*                  notion_update_page or notion_create_page               *)
(*   notion_api.py  upsert_page(): query_by_canvas_id, then                *)
(*                  query_by_title_and_date, then pages.update/.create     *)
(*                                                                         *)
(*   taxonomy       ensure_taxonomy / _ensure_select_options_for of        *)
(*                  notion_api.py; sync() runs its own taxonomy step,      *)
(*                  ensure_base_options, for every record                  *)
(*                                                                         *)
(* A behaviour runs one of the programs (variable engine) against a        *)
(* destination that starts empty or with one page the end user made.       *)
(* A page is a record of stored property values; "none" is an empty        *)
(* property.  Page ids are positions in the sequence pages, which is also  *)
(* the order in which the destination returns query results.  An entry of  *)
(* calls is a page write, a schema update, or a lookup with the outcome    *)
(* its retry loop ended in.  Each program first checks its configuration   *)
(* variables (env); Canvas answers sync()'s requests with data, with 401   *)
(* or with another error.                                                  *)
(***************************************************************************)
EXTENDS Integers, Sequences, FiniteSets, TLC

VARIABLES
    engine,     \* "sync" (sync.py), "upsert" or "taxonomy" (notion_api.py)
    schema,     \* optional properties the database has: "due" (date), "text" (rich_text), "teacher" (select)
    pages,      \* the destination's pages, in the destination's order
    args,       \* the record handled by the last invocation
    calls,      \* the Notion page/query calls of the last invocation, in order
    ret,        \* how the last invocation ended: "none", "updated", "created", "raised"
    created,    \* Canvas ids a successful CREATE was made for, its payload carrying the id
    upstream,   \* sync.py: the assignments Canvas returns, in order
    pc,         \* sync.py: "idle", "running", "done", "aborted"
    pos,        \* sync.py: index in upstream of the next record
    base,       \* sync.py: the pages as the previous run left them, when that run completed
    runCreate,  \* sync.py: a CREATE call has been issued in this run
    options,    \* the select property the taxonomy step maintains: its kind and its option names, in order
    cidType,    \* the type of the database's 'Canvas ID' property, "none" when it has none
    total_processed, \* sync.py: the assignments this run has handled
    runSkipped, \* sync.py: this run skipped a course whose assignments could not be fetched
    env,        \* os.environ: each configuration variable unset, empty or set
    exitMsg,    \* the variables the SystemExit message of the configuration check names
    locals      \* utils.retry: the wrapper's _tries and _delay, "none" outside a wrapped call

vars == <<engine, schema, pages, args, calls, ret, created,
          upstream, pc, pos, base, runCreate, options, cidType, total_processed,
          runSkipped, env, exitMsg, locals>>

(***************************************************************************)
(* Bounds and value sets                                                   *)
(***************************************************************************)
MaxPages == 2
MaxRecs == 2

NONE == "none"
Ids == {"1", "2"}
Titles == {"A", "B"}
Days == {"d1"}
LateDays == {"far"}
Classes == {"c1", "c2"}

\* Property keys of a page and the Notion type of each.
PageKeys == {"title", "cid", "due", "text", "cls", "teacher", "url"}

PropType(k) ==
    CASE k = "title" -> "title"
      [] k = "cid"   -> "number"
      [] k = "due"   -> "date"
      [] k = "text"  -> "rich_text"
      [] k = "cls"   -> "select"
      [] k = "teacher" -> "select"
      [] k = "url"   -> "url"

BlankPage == [k \in PageKeys |-> NONE]

\* The caller's two encodings of a due day: ISO for the date property,
\* MM/DD/YYYY for the text property.
Iso(d) == IF d = NONE THEN NONE ELSE "iso-" \o d
Mdy(d) == IF d = NONE THEN NONE ELSE "mdy-" \o d

(***************************************************************************)
(* The destination (Notion): queries and page writes                       *)
(***************************************************************************)
\* A variant that takes the last matching page.
LastOf(S) == IF S = {} THEN 0 ELSE CHOOSE i \in S : \A j \in S : i >= j

\* results[0] of a query: the first matching page, 0 when there is none.
First(S) == IF S = {} THEN 0 ELSE CHOOSE i \in S : \A j \in S : i <= j

\* A number filter 'Canvas ID equals id'; no page's number equals null.
IdHits(ps, id) == {i \in DOMAIN ps : id # NONE /\ ps[i].cid = id}

\* The destination checks every value of a page write against the type of
\* the property it is written to.
DestAccepts(props, have) ==
    \A k \in DOMAIN props : k \in have /\ props[k].type = PropType(k)

\* What a page holds after a write of props: the keys sent are overwritten,
\* a null value empties the property, the other properties are left alone.
Stored(val) == IF val.v = "null" THEN NONE ELSE val.v
ApplyUpdate(page, props) ==
    [k \in PageKeys |-> IF k \in DOMAIN props THEN Stored(props[k]) ELSE page[k]]
ApplyCreate(props) == ApplyUpdate(BlankPage, props)

\* One call to the destination: its kind, how it ended, the page it
\* addressed or returned (0 when none) and, for a page write, the payload sent.
NoProps == [k \in {} |-> NONE]
Call(op, res, page, sent) == [op |-> op, res |-> res, page |-> page, sent |-> sent]
Query(op, res, page) == Call(op, res, page, NoProps)

Range(s) == {s[i] : i \in DOMAIN s}

\* The select property of the database that the taxonomy step maintains
\* ('Class'): kind is its Notion type, "none" when the database has no such
\* property; opts its option names in the destination's order.
SelectKinds == {"select", "multi_select"}
OptNames == {"c1", "c2", "x"}

\* A schema update that sets the option list of the property: the
\* destination replaces the list by the one sent.
UpdateOptions(res, opts) == Call("update_db", res, 0, [prop |-> "Class", options |-> opts])

(***************************************************************************)
(* utils.py: retry                                                         *)
(***************************************************************************)
IdTries == 4
FbTries == 3

\* The wrapped call is attempted until it succeeds, at most tries times;
\* fails = how many attempts in a row the destination fails.
RetryOutcome(tries, fails) == IF fails >= tries THEN "error" ELSE "ok"

(***************************************************************************)
(* notion_api.py: upsert_page and its helpers                              *)
(***************************************************************************)
\* A property value is [type, v]; a date whose value is None, or whose start
\* is None or "", has v = "null".  val.get("date") is None for every value
\* that has no "date" key, so every value of another type counts as null.
IsNullDate(val) == val.type # "date" \/ val.v = "null"

NullDate == [type |-> "date", v |-> "null"]

NormalizeDateForUpdate(props) ==
    [k \in DOMAIN props |-> IF IsNullDate(props[k]) THEN NullDate ELSE props[k]]

DropNullDatesForCreate(props) ==
    [k \in {x \in DOMAIN props : ~IsNullDate(props[x])} |-> props[k]]

\* query_by_title_and_date: the filter is the conjunction of the title
\* condition and of each date condition whose property and value are given.
TdHits(ps, a) ==
    {i \in DOMAIN ps :
        /\ ps[i][a.title_prop] = a.title_text
        /\ (a.due_date_prop_date # NONE /\ a.due_str_iso # NONE)
              => ps[i][a.due_date_prop_date] = a.due_str_iso
        /\ (a.due_date_prop_text # NONE /\ a.due_str_mdy # NONE)
              => ps[i][a.due_date_prop_text] = a.due_str_mdy}

\* client.pages.update: the injected failure, else the destination's type
\* check; "invalid" is the APIResponseError of a payload it rejects.
UpdateResult(props, have, inj) ==
    IF inj # "ok" THEN inj
    ELSE IF DestAccepts(props, have) THEN "ok" ELSE "invalid"

\* Step 3 of upsert_page: create a new page.
UpsertCreate(ps, have, a, f, sofar) ==
    LET clean == DropNullDatesForCreate(a.props)
        ok    == f.crt = "ok" /\ DestAccepts(clean, have)
    IN  IF ok
        THEN [calls |-> Append(sofar, Call("create", "ok", Len(ps) + 1, clean)),
              pages |-> Append(ps, ApplyCreate(clean)),
              ret   |-> "created"]
        ELSE [calls |-> Append(sofar, Call("create", "error", 0, clean)),
              pages |-> ps,
              ret   |-> "raised"]

\* Step 2 of upsert_page: the title + date fallback.  The query and the
\* update are inside one try block; an APIResponseError of either is
\* swallowed and the function goes on to create, any other exception leaves
\* the function.
UpsertFallback(ps, have, a, f, sofar) ==
    IF a.title_prop = NONE \/ a.title_text = ""
    THEN UpsertCreate(ps, have, a, f, sofar)
    ELSE IF RetryOutcome(FbTries, f.fb[1]) = "error"
    THEN LET c == Append(sofar, Query("query_td", f.fb[2], 0))
         IN  IF f.fb[2] = "api"
             THEN UpsertCreate(ps, have, a, f, c)
             ELSE [calls |-> c, pages |-> ps, ret |-> "raised"]
    ELSE LET hit == First(TdHits(ps, a))
         IN  IF hit = 0
             THEN UpsertCreate(ps, have, a, f,
                               Append(sofar, Query("query_td", "miss", 0)))
             ELSE LET props == NormalizeDateForUpdate(a.props)
                      res   == UpdateResult(props, have, f.upd)
                      c     == sofar \o <<Query("query_td", "hit", hit),
                                          Call("update", res, hit, props)>>
                  IN  CASE res = "ok" ->
                             [calls |-> c,
                              pages |-> [ps EXCEPT ![hit] = ApplyUpdate(@, props)],
                              ret   |-> "updated"]
                        [] res \in {"api", "invalid"} -> UpsertCreate(ps, have, a, f, c)
                        [] OTHER -> [calls |-> c, pages |-> ps, ret |-> "raised"]

\* Step 1 of upsert_page once query_by_canvas_id has returned: update the
\* first page with this Canvas ID, else go on to the fallback.
UpsertById(ps, have, a, f) ==
    LET hit == First(IdHits(ps, a.canvas_id))
    IN  IF hit # 0
        THEN LET props == NormalizeDateForUpdate(a.props)
                 res   == UpdateResult(props, have, f.upd)
                 c     == <<Query("query_id", "hit", hit),
                            Call("update", res, hit, props)>>
             IN  IF res = "ok"
                 THEN [calls |-> c,
                       pages |-> [ps EXCEPT ![hit] = ApplyUpdate(@, props)],
                       ret   |-> "updated"]
                 ELSE [calls |-> c, pages |-> ps, ret |-> "raised"]
        ELSE UpsertFallback(ps, have, a, f, <<Query("query_id", "miss", 0)>>)

\* ensure_canvas_id_property: when the database has no 'Canvas ID' property
\* of type number, one schema update that sets 'Canvas ID' to a number
\* property; res is how the destination answers it.
EnsureCanvasIdProperty(ct, res) ==
    IF ct = "number"
    THEN [calls |-> <<>>, cidType |-> ct, raised |-> FALSE]
    ELSE IF res = "ok"
    THEN [calls |-> <<Call("update_db", "ok", 0, [prop |-> "Canvas ID", type |-> "number"])>>,
          cidType |-> "number", raised |-> FALSE]
    ELSE [calls |-> <<Call("update_db", "error", 0, [prop |-> "Canvas ID", type |-> "number"])>>,
          cidType |-> ct, raised |-> TRUE]

\* query_by_canvas_id under its retry loop.  A number filter on a property
\* that is absent or of another type is a validation error: the handler
\* calls ensure_canvas_id_property and queries again; an exception of either
\* is one failed attempt.  res is "ok" when an attempt returned results.
QueryByCanvasId(ct, f) ==
    LET ens == EnsureCanvasIdProperty(ct, f.db)
    IN  [calls   |-> ens.calls,
         cidType |-> ens.cidType,
         res     |-> IF ens.raised THEN "error" ELSE RetryOutcome(IdTries, f.idFails)]

\* A variant of upsert_page that takes a failed lookup by Canvas ID for an
\* empty result and goes on to the fallback.
UpsertPageIdErrorAsMiss(ps, ct, have, a, f) ==
    LET q == QueryByCanvasId(ct, f)
    IN  IF q.res = "error"
        THEN LET out == UpsertFallback(ps, have, a, f, <<Query("query_id", "error", 0)>>)
             IN  [calls |-> q.calls \o out.calls, pages |-> out.pages,
                  ret |-> out.ret, cidType |-> q.cidType]
        ELSE LET out == UpsertById(ps, have, a, f)
             IN  [calls |-> q.calls \o out.calls, pages |-> out.pages,
                  ret |-> out.ret, cidType |-> q.cidType]

\* upsert_page.  f holds the failures the destination injects: idFails and
\* fb[1] attempts of the two queries fail in a row, fb[2] is the kind of
\* exception of the fallback query ("api" = APIResponseError), upd and crt
\* the outcome of the update and of the create call, db that of a schema
\* update.  The lookup by Canvas ID is outside every try block: its
\* exception leaves the function.  have is the schema once the lookup has
\* returned.
UpsertPage(ps, ct, have, a, f) ==
    LET q == QueryByCanvasId(ct, f)
    IN  IF q.res = "error"
        THEN [calls |-> q.calls \o <<Query("query_id", "error", 0)>>,
              pages |-> ps, ret |-> "raised", cidType |-> q.cidType]
        ELSE LET out == UpsertById(ps, have, a, f)
             IN  [calls |-> q.calls \o out.calls, pages |-> out.pages,
                  ret |-> out.ret, cidType |-> q.cidType]

\* The arguments a caller of upsert_page passes for record r of the source:
\* the property names are those the schema has, the payload carries the keys
\* in keys (title, Canvas ID, and the due date in the encodings the schema has).
UpsertArgs(r, have, keys, withTitle) ==
    [canvas_id          |-> r.id,
     props              |-> [k \in keys |->
                               CASE k = "title" -> [type |-> "title", v |-> r.name]
                                 [] k = "cid"   -> [type |-> "number", v |-> r.id]
                                 [] k = "due"   -> [type |-> "date",
                                                    v |-> IF r.due = NONE THEN "null" ELSE Iso(r.due)]
                                 [] k = "text"  -> [type |-> "rich_text", v |-> Mdy(r.due)]],
     title_prop         |-> IF withTitle THEN "title" ELSE NONE,
     title_text         |-> r.name,
     due_date_prop_date |-> IF "due" \in have THEN "due" ELSE NONE,
     due_str_iso        |-> Iso(r.due),
     due_date_prop_text |-> IF "text" \in have THEN "text" ELSE NONE,
     due_str_mdy        |-> Mdy(r.due)]

\* Failures the destination injects into one invocation: a query fails on no
\* attempt or on every attempt of its retry loop (fb = the failing attempts
\* of the fallback query and the kind of their exception).
Faults(ct) ==
    [idFails : {0, IdTries},
     fb : {<<0, "api">>, <<FbTries, "api">>, <<FbTries, "other">>},
     upd : {"ok", "api", "other"}, crt : {"ok", "error"},
     db : IF ct = "number" THEN {"ok"} ELSE {"ok", "error"}]

SourceRecords == [id : Ids \cup {NONE}, name : Titles, due : Days \cup {NONE}]

Have == {"title", "cid"} \cup schema

\* The payloads a caller sends: every property the schema has, or the
\* due-date properties alone.
Payloads(r) ==
    {(IF r.id = NONE THEN {"title"} ELSE {"title", "cid"}) \cup schema, schema}

\* args: rec = the record of the source, a = the arguments of upsert_page.
NoArgs == [rec |-> [id |-> NONE, name |-> NONE, due |-> NONE], got401 |-> FALSE]

\* The configuration variables the modules read, and what os.environ holds
\* for one.
EnvVars == {"CANVAS_API_BASE", "CANVAS_API_TOKEN", "NOTION_DATABASE_ID", "NOTION_TOKEN"}
EnvValues == {"unset", "empty", "set"}

\* 'not v' for os.environ.get(name) or os.environ.get(name, "").
Falsy(v) == v \in {"unset", "empty"}

\* The module body of notion_api.py, run when a program imports it: it
\* looks at its two variables; its message names both.
LoadNotionApi ==
    /\ engine \in {"upsert", "taxonomy"}
    /\ pc = "idle"
    /\ IF Falsy(env["NOTION_TOKEN"]) \/ Falsy(env["NOTION_DATABASE_ID"])
       THEN pc' = "exit" /\ exitMsg' = {"NOTION_TOKEN", "NOTION_DATABASE_ID"}
       ELSE pc' = "loaded" /\ exitMsg' = exitMsg
    /\ UNCHANGED <<engine, schema, pages, args, calls, ret, created, upstream, pos, base,
                   runCreate, options, cidType, total_processed, runSkipped, env, locals>>

\* One invocation of upsert_page, up to its return or its exception.
Upsert ==
    /\ engine = "upsert"
    /\ pc = "loaded"
    /\ ret = NONE
    /\ \E r \in SourceRecords, withTitle \in BOOLEAN, f \in Faults(cidType) :
       \E keys \in Payloads(r) :
       \E a \in {UpsertArgs(r, Have, keys, withTitle)} :
       \E out \in {UpsertPage(pages, cidType, Have, a, f)} :
              /\ Len(out.pages) <= MaxPages
              /\ pages' = out.pages
              /\ cidType' = out.cidType
              /\ args' = [rec |-> r, a |-> a]
              /\ calls' = out.calls
              /\ ret' = out.ret
              /\ created' = IF out.ret = "created" /\ "cid" \in keys
                            THEN created \cup {r.id} ELSE created
    /\ UNCHANGED <<engine, schema, upstream, pc, pos, base, runCreate, options,
                   total_processed, runSkipped, env, exitMsg, locals>>

\* ensure_schema(), which a caller runs ahead of its records.
EnsureSchema ==
    /\ engine = "upsert"
    /\ pc = "loaded"
    /\ ret = NONE
    /\ \E res \in (IF cidType = "number" THEN {"ok"} ELSE {"ok", "error"}) :
       \E out \in {EnsureCanvasIdProperty(cidType, res)} :
              /\ cidType' = out.cidType
              /\ calls' = out.calls
              /\ ret' = IF out.raised THEN "raised" ELSE "ensured"
    /\ args' = NoArgs
    /\ UNCHANGED <<engine, schema, pages, created, upstream, pc, pos, base,
                   runCreate, options, total_processed, runSkipped, env, exitMsg, locals>>

\* The caller takes the result (or the exception) and goes on to its next
\* record: the locals of the invocation are gone.
UpsertReturn ==
    /\ engine = "upsert"
    /\ ret # NONE
    /\ args' = NoArgs
    /\ calls' = <<>>
    /\ ret' = NONE
    /\ UNCHANGED <<engine, schema, pages, created, upstream, pc, pos, base,
                   runCreate, options, cidType, total_processed, runSkipped, env, exitMsg, locals>>

(***************************************************************************)
(* notion_api.py: ensure_taxonomy                                          *)
(***************************************************************************)
MaxOpts == 2

\* Sequences of distinct elements of S, of length at most n.
DistinctSeqs(S, n) ==
    {q \in UNION {[1..m -> S] : m \in 0..n} :
        \A i, j \in DOMAIN q : i # j => q[i] # q[j]}

\* The names a caller wants as options; "" is a missing name.
WantedNames == DistinctSeqs({"", "c1", "c2"}, 2)

\* A variant of _ensure_select_options_for that sends the missing names
\* alone.
EnsureSelectOptionsForOnlyMissing(opt, want_names, kind, res) ==
    IF opt.kind # kind
    THEN [calls |-> <<>>, options |-> opt, raised |-> FALSE]
    ELSE LET missing == SelectSeq(want_names,
                                  LAMBDA n : n # "" /\ n \notin Range(opt.opts))
         IN  IF missing = <<>>
             THEN [calls |-> <<>>, options |-> opt, raised |-> FALSE]
             ELSE IF res = "ok"
             THEN [calls |-> <<UpdateOptions("ok", missing)>>,
                   options |-> [opt EXCEPT !.opts = missing], raised |-> FALSE]
             ELSE [calls |-> <<UpdateOptions("error", missing)>>,
                   options |-> opt, raised |-> TRUE]

\* _ensure_select_options_for(db, prop_name, want_names, kind): nothing when
\* the property is absent or of another type, or when no wanted name is
\* missing; else one schema update with the options read followed by the
\* missing names.  res is how the destination answers it.
EnsureSelectOptionsFor(opt, want_names, kind, res) ==
    IF opt.kind # kind
    THEN [calls |-> <<>>, options |-> opt, raised |-> FALSE]
    ELSE LET missing  == SelectSeq(want_names,
                                   LAMBDA n : n # "" /\ n \notin Range(opt.opts))
             new_opts == opt.opts \o missing
         IN  IF missing = <<>>
             THEN [calls |-> <<>>, options |-> opt, raised |-> FALSE]
             ELSE IF res = "ok"
             THEN [calls |-> <<UpdateOptions("ok", new_opts)>>,
                   options |-> [opt EXCEPT !.opts = new_opts], raised |-> FALSE]
             ELSE [calls |-> <<UpdateOptions("error", new_opts)>>,
                   options |-> opt, raised |-> TRUE]

\* One call of ensure_taxonomy, for the property it expects to be of type
\* kind ('Class', 'Teacher', 'Tags': multi_select; 'Type', 'Priority': select).
EnsureTaxonomy ==
    /\ engine = "taxonomy"
    /\ pc = "loaded"
    /\ \E want \in WantedNames, kind \in SelectKinds, res \in {"ok", "error"} :
       \E out \in {EnsureSelectOptionsFor(options, want, kind, res)} :
              /\ options' = out.options
              /\ calls' = out.calls
              /\ ret' = IF out.raised THEN "raised" ELSE "ensured"
              /\ args' = [rec |-> NoArgs.rec, want |-> want, kind |-> kind]
    /\ UNCHANGED <<engine, schema, pages, created, upstream, pc, pos, base,
                   runCreate, cidType, total_processed, runSkipped, env, exitMsg, locals>>

(***************************************************************************)
(* sync.py: sync() and its helpers                                         *)
(***************************************************************************)
\* An assignment as sync() maps it: record["canvas_id"], ["name"], ["class"]
\* and ["due_at"] (a day).
SyncRecords ==
    [id : Ids \cup {NONE}, name : Titles, cls : Classes, due : Days \cup LateDays \cup {NONE}]

\* The window of sync(): from WindowPast days before now to WindowAhead days
\* after it, both ends included.  DayOffset is due_at - NOW_UTC in days.
WindowPast == 30
WindowAhead == 180

DayOffset(d) == IF d \in LateDays THEN 181 ELSE 180

InWindowAlways(d) == TRUE

InWindow(d) == -WindowPast <= DayOffset(d) /\ DayOffset(d) <= WindowAhead

\* dt_to_notion_date: the due instant as an ISO datetime in local time.
DtToNotionDate(d) == "dt-" \o d

\* The destination compares a date filter with a stored date by the day:
\* stored is a date of that day or a datetime within it.
DateEquals(stored, day) == stored \in {Iso(day), DtToNotionDate(day)}

\* The first teacher of a course, as fetch_active_courses_with_teachers
\* returns it.
TeacherOf(cls) == "t-" \o cls

\* build_props, for the record at position n of upstream; "url" stands for
\* the properties that are a function of the assignment alone.  The keys
\* depend on the record alone.
BuildProps(r, n) ==
    [k \in (IF r.id = NONE THEN {"title", "cls", "teacher", "due", "url"}
                           ELSE {"title", "cls", "teacher", "due", "url", "cid"}) |->
        CASE k = "title" -> [type |-> "title", v |-> r.name]
          [] k = "cls"   -> [type |-> "select", v |-> r.cls]
          [] k = "teacher" -> [type |-> "select", v |-> TeacherOf(r.cls)]
          [] k = "due"   -> [type |-> "date",
                             v |-> IF r.due = NONE THEN "null" ELSE DtToNotionDate(r.due)]
          [] k = "url"   -> [type |-> "url", v |-> "u" \o ToString(n)]
          [] k = "cid"   -> [type |-> "number", v |-> r.id]]

\* notion_query_by_unique: by Canvas ID when the record has one, else by
\* name, class and due day.
NotionQueryByUnique(ps, r) ==
    IF r.id # NONE
    THEN IdHits(ps, r.id)
    ELSE {i \in DOMAIN ps :
            /\ ps[i].title = r.name
            /\ ps[i].cls = r.cls
            /\ r.due # NONE => DateEquals(ps[i].due, r.due)}

\* The one query of notion_query_by_unique is a lookup by Canvas ID or a
\* lookup by name, class and date.
QueryKind(r) == IF r.id # NONE THEN "query_id" ELSE "query_td"

SyncHave == {"title", "cid", "cls", "url"} \cup schema

\* The answers of one iteration's requests: asg of the course's assignment
\* list (asked for at the first assignment of a course), sub of the
\* submission, opts, qry and wr of the Notion schema update, query and page
\* write.  The first failure decides the iteration, so at most one fails.
SyncFaults(atStart) ==
    {f \in [asg : IF atStart THEN {"ok", "401", "error"} ELSE {"ok"},
            sub : {"ok", "401", "error"},
            opts : {"ok", "error"}, qry : {"ok", "error"}, wr : {"ok", "error"}] :
        Cardinality({k \in DOMAIN f : f[k] # "ok"}) <= 1}

\* A variant of canvas_get without the 401 case: raise_for_status raises
\* HTTPError for every error answer.
CanvasGetNo401(res) == IF res = "ok" THEN "ok" ELSE "raise"

\* canvas_get: SystemExit ("exit") on a 401 answer, HTTPError ("raise") on
\* another error answer.
CanvasGet(res) ==
    CASE res = "401"   -> "exit"
      [] res = "error" -> "raise"
      [] OTHER         -> "ok"

\* fetch_course_assignments inside sync()'s try: 'except Exception' logs and
\* skips the course; SystemExit is not an Exception.
FetchCourseAssignments(res) ==
    IF CanvasGet(res) = "raise" THEN "skip" ELSE CanvasGet(res)

\* a.get("submission") or fetch_submission(...): 'except Exception' returns
\* {} and the record is handled as not submitted.
FetchSubmission(res) ==
    IF CanvasGet(res) = "raise" THEN "ok" ELSE CanvasGet(res)

\* The index of the first assignment after position n that is of another
\* course than the one at n.
NextCourse(u, n) ==
    LET later == {j \in DOMAIN u : j > n /\ u[j].cls # u[n].cls}
    IN  IF later = {} THEN Len(u) + 1 ELSE First(later)

\* ensure_select_options(db, prop, names): the options read, followed by the
\* names that are not among them; the schema update is sent whether or not a
\* name was added.  res is how the destination answers it.
EnsureSelectOptions(opt, names, res) ==
    IF opt.kind \notin SelectKinds
    THEN [calls |-> <<>>, options |-> opt, raised |-> FALSE]
    ELSE LET merged == opt.opts \o SelectSeq(names, LAMBDA n : n \notin Range(opt.opts))
         IN  IF res = "ok"
             THEN [calls |-> <<UpdateOptions("ok", merged)>>,
                   options |-> [opt EXCEPT !.opts = merged], raised |-> FALSE]
             ELSE [calls |-> <<UpdateOptions("error", merged)>>,
                   options |-> opt, raised |-> TRUE]

\* The lookup and the page write of one assignment: build_props, the lookup,
\* then one update or one create.
SyncWrite(ps, r, n, f) ==
    IF f.qry = "error"
    THEN [calls |-> <<Query(QueryKind(r), "error", 0)>>, pages |-> ps, ret |-> "raised"]
    ELSE LET props == BuildProps(r, n)
             hit   == First(NotionQueryByUnique(ps, r))
             ok    == f.wr = "ok" /\ DestAccepts(props, SyncHave)
         IN  IF hit # 0
             THEN LET c == <<Query(QueryKind(r), "hit", hit),
                             Call("update", IF ok THEN "ok" ELSE "error", hit, props)>>
                  IN  IF ok
                      THEN [calls |-> c,
                            pages |-> [ps EXCEPT ![hit] = ApplyUpdate(@, props)],
                            ret   |-> "updated"]
                      ELSE [calls |-> c, pages |-> ps, ret |-> "raised"]
             ELSE IF ok
                  THEN [calls |-> <<Query(QueryKind(r), "miss", 0),
                                    Call("create", "ok", Len(ps) + 1, props)>>,
                        pages |-> Append(ps, ApplyCreate(props)),
                        ret   |-> "created"]
                  ELSE [calls |-> <<Query(QueryKind(r), "miss", 0),
                                    Call("create", "error", 0, props)>>,
                        pages |-> ps,
                        ret   |-> "raised"]

\* One iteration of sync() from the window filter on: a record outside the
\* window is passed over; else the submission is looked at, then
\* ensure_base_options (its call for 'Class'; the calls for the other
\* properties run the same function), then the lookup and the write.  No
\* Notion call is inside a try block: the first failure leaves sync().
SyncBody(ps, opt, r, n, f) ==
    IF r.due # NONE /\ ~InWindow(r.due)
    THEN [calls |-> <<>>, pages |-> ps, options |-> opt, ret |-> "skipped",
          got401 |-> FALSE]
    ELSE IF FetchSubmission(f.sub) = "exit"
    THEN [calls |-> <<>>, pages |-> ps, options |-> opt, ret |-> "unauthorized",
          got401 |-> TRUE]
    ELSE LET ens == EnsureSelectOptions(opt, <<r.cls>>, f.opts)
         IN  IF ens.raised
             THEN [calls |-> ens.calls, pages |-> ps, options |-> opt,
                   ret |-> "raised", got401 |-> f.sub = "401"]
             ELSE LET out == SyncWrite(ps, r, n, f)
                  IN  [calls |-> ens.calls \o out.calls, pages |-> out.pages,
                       options |-> ens.options, ret |-> out.ret,
                       got401 |-> f.sub = "401"]

\* One step of sync()'s loops: at the first assignment of a course the
\* course's assignments are fetched, which may end the run or skip the
\* course; then the iteration for the assignment.  got401: Canvas answered
\* a request of this step with 401.
SyncOne(ps, opt, r, n, f) ==
    CASE FetchCourseAssignments(f.asg) = "exit" ->
            [calls |-> <<>>, pages |-> ps, options |-> opt, ret |-> "unauthorized",
             got401 |-> TRUE]
      [] FetchCourseAssignments(f.asg) = "skip" ->
            [calls |-> <<>>, pages |-> ps, options |-> opt, ret |-> "course_skipped",
             got401 |-> f.asg = "401"]
      [] OTHER -> SyncBody(ps, opt, r, n, f)

HasCall(cs, op) == \E i \in DOMAIN cs : cs[i].op = op

\* missing = [k for k, v in REQUIRED_ENV if not v]
MissingEnv(e) == {k \in EnvVars : Falsy(e[k])}

\* sync.py is started with a variable missing: its module body raises
\* SystemExit with the names of the missing ones, before sync() is called.
SyncExit ==
    /\ engine = "sync"
    /\ pc = "idle"
    /\ MissingEnv(env) # {}
    /\ pc' = "exit"
    /\ exitMsg' = MissingEnv(env)
    /\ UNCHANGED <<engine, schema, pages, args, calls, ret, created, upstream, pos, base,
                   runCreate, options, cidType, total_processed, runSkipped, env, locals>>

\* A run of sync() starts: the courses are fetched; an error answer ends
\* the run.
SyncStart ==
    /\ engine = "sync"
    /\ pc \in {"idle", "done", "aborted"}
    /\ MissingEnv(env) = {}
    /\ \E crs \in {"ok", "401", "error"} :
          /\ pc' = IF CanvasGet(crs) = "ok" THEN "running" ELSE "aborted"
          /\ ret' = CASE CanvasGet(crs) = "exit"  -> "unauthorized"
                      [] CanvasGet(crs) = "raise" -> "raised"
                      [] OTHER                    -> NONE
          /\ args' = [NoArgs EXCEPT !.got401 = (crs = "401")]
    /\ pos' = 1
    /\ base' = IF pc = "done" /\ ~runSkipped THEN [ok |-> TRUE, pages |-> pages]
                                              ELSE [ok |-> FALSE, pages |-> <<>>]
    /\ runCreate' = FALSE
    /\ runSkipped' = FALSE
    /\ calls' = <<>>
    /\ total_processed' = 0
    /\ UNCHANGED <<engine, schema, pages, created, upstream, options, cidType, env, exitMsg, locals>>

\* A variant that counts every assignment the loop has met, also one the
\* window filter passed over.
CountsMet(outcome) == outcome \in {"updated", "created", "skipped"}

\* total_processed += 1 at the end of the loop body: reached after the
\* update or the create has returned, not after a 'continue' or an exception.
Counts(outcome) == outcome \in {"updated", "created"}

\* sync() handles the next assignment.
SyncRecord ==
    /\ engine = "sync"
    /\ pc = "running"
    /\ pos <= Len(upstream)
    /\ \E f \in SyncFaults(pos = 1 \/ upstream[pos - 1].cls # upstream[pos].cls) :
       \E r \in {upstream[pos]} :
       \E out \in {SyncOne(pages, options, r, pos, f)} :
              /\ Len(out.pages) <= MaxPages
              /\ pages' = out.pages
              /\ options' = out.options
              /\ args' = [rec |-> r, got401 |-> out.got401]
              /\ calls' = out.calls
              /\ ret' = out.ret
              /\ created' = IF out.ret = "created" /\ r.id # NONE
                            THEN created \cup {r.id} ELSE created
              /\ runCreate' = (runCreate \/ HasCall(out.calls, "create"))
              /\ runSkipped' = (runSkipped \/ out.ret = "course_skipped")
              /\ pc' = IF out.ret \in {"raised", "unauthorized"} THEN "aborted" ELSE "running"
              /\ pos' = CASE out.ret \in {"raised", "unauthorized"} -> pos
                          [] out.ret = "course_skipped" -> NextCourse(upstream, pos)
                          [] OTHER -> pos + 1
              /\ total_processed' = IF Counts(out.ret)
                                    THEN total_processed + 1 ELSE total_processed
    /\ UNCHANGED <<engine, schema, upstream, base, cidType, env, exitMsg, locals>>

\* sync() has handled every assignment and logs its summary.
SyncFinish ==
    /\ engine = "sync"
    /\ pc = "running"
    /\ pos > Len(upstream)
    /\ pc' = "done"
    /\ UNCHANGED <<engine, schema, pages, args, calls, ret, created,
                   upstream, pos, base, runCreate, options, cidType, total_processed,
                   runSkipped, env, exitMsg, locals>>

\* What Canvas returns: distinct ids, the assignments grouped by course.
\* Ids, names and course names are labels: the first id met is "1", the
\* first name "A", the first course "c1".  sync() reads of an assignment
\* outside the window only due_at, so its id and name are left at one value.
Upstreams ==
    {u \in UNION {[1..n -> SyncRecords] : n \in 1..MaxRecs} :
        /\ u[1].cls = "c1"
        /\ u[1].name = "A"
        /\ \A i \in DOMAIN u :
              u[i].due \in LateDays => u[i].id = NONE /\ u[i].name = "A"
        /\ \A i \in DOMAIN u :
              u[i].id = "2" => \E j \in 1..(i - 1) : u[j].id = "1"
        /\ \A i, j \in DOMAIN u :
              i < j => /\ (u[i].id = NONE \/ u[i].id # u[j].id)
                       /\ (u[i].cls = u[j].cls \/ u[i].cls = "c1")}

(***************************************************************************)
(* Initial states                                                          *)
(***************************************************************************)
\* A page that exists before the first run: made by the end user, holding
\* only values of properties the database has.  The user may have made the
\* same page twice.
UserPages(eng, sch, ct) ==
    {[BlankPage EXCEPT !.title = t, !.due = Iso(d), !.cid = c, !.cls = k, !.text = Mdy(x)] :
        t \in Titles,
        d \in (IF "due" \in sch THEN Days ELSE {}) \cup {NONE},
        x \in (IF "text" \in sch THEN Days ELSE {}) \cup {NONE},
        c \in (IF eng = "upsert" /\ ct = "number" THEN Ids ELSE {}) \cup {NONE},
        k \in (IF eng = "sync" THEN Classes ELSE {}) \cup {NONE}}

\* The select property before the first run: in sync.py's database 'Class'
\* is a select with an option the user made; ensure_taxonomy meets any kind
\* and any options.
InitOptions(eng) ==
    CASE eng = "sync"   -> {[kind |-> "select", opts |-> <<"x">>]}
      [] eng = "upsert" -> {[kind |-> NONE, opts |-> <<>>]}
      [] OTHER          -> {[kind |-> k, opts |-> o] :
                               k \in SelectKinds, o \in DistinctSeqs(OptNames, MaxOpts)}
                           \cup {[kind |-> k, opts |-> <<>>] : k \in {"rich_text", NONE}}

\* The database of a start with a variable missing: no page, no option.
BareOptions(eng) == [kind |-> IF eng = "upsert" THEN NONE ELSE "select", opts |-> <<>>]

Init ==
    /\ engine \in {"sync", "upsert", "taxonomy"}
    /\ env \in [EnvVars -> EnvValues]
    /\ exitMsg = {}
    /\ options \in (IF MissingEnv(env) = {} THEN InitOptions(engine)
                                           ELSE {BareOptions(engine)})
    /\ cidType \in (IF engine = "upsert" /\ MissingEnv(env) = {}
                    THEN {"number", "rich_text", NONE} ELSE {"number"})
    /\ schema \in (CASE engine = "sync" /\ MissingEnv(env) = {} -> {{"due", "teacher"}, {"due"}}
                     [] engine = "sync" -> {{"due", "teacher"}}
                     [] engine = "upsert" /\ MissingEnv(env) = {} -> SUBSET {"due", "text"}
                     [] OTHER -> {{}})
    /\ pages \in (IF engine = "taxonomy" \/ MissingEnv(env) # {} THEN {<<>>}
                 ELSE {<<>>} \cup {<<p>> : p \in UserPages(engine, schema, cidType)}
                      \cup (IF engine = "upsert"
                            THEN {<<p, p>> : p \in UserPages(engine, schema, cidType)}
                            ELSE {}))
    /\ args = NoArgs
    /\ calls = <<>>
    /\ ret = NONE
    /\ created = {}
    /\ upstream \in (IF engine = "sync" /\ MissingEnv(env) = {} THEN Upstreams ELSE {<<>>})
    /\ pc = "idle"
    /\ pos = 0
    /\ base = [ok |-> FALSE, pages |-> <<>>]
    /\ runCreate = FALSE
    /\ runSkipped = FALSE
    /\ total_processed = 0
    /\ locals = NONE

\* The steps of a program built on notion_api.py, and those of sync.py.
NextNotionApi ==
    \/ LoadNotionApi
    \/ Upsert \/ EnsureSchema \/ UpsertReturn
    \/ EnsureTaxonomy

NextSync ==
    \/ SyncExit \/ SyncStart \/ SyncRecord \/ SyncFinish

Next == NextNotionApi \/ NextSync

Spec == Init /\ [][Next]_vars

\* The behaviours of each program alone.
InitNotionApi == Init /\ engine \in {"upsert", "taxonomy"}
SpecNotionApi == InitNotionApi /\ [][NextNotionApi]_vars

InitSync == Init /\ engine = "sync"
SpecSync == InitSync /\ [][NextSync]_vars

(***************************************************************************)
(* The parts of the programs that are checked on their own.  Each runs     *)
(* with engine set to its name; the variables it does not use stay at      *)
(* rest.                                                                   *)
(***************************************************************************)
restVars == <<schema, created, upstream, base, runCreate, options, cidType,
              total_processed, runSkipped, env, exitMsg>>

AtRest ==
    /\ schema = {}
    /\ created = {}
    /\ upstream = <<>>
    /\ base = [ok |-> FALSE, pages |-> <<>>]
    /\ runCreate = FALSE
    /\ options = BareOptions("upsert")
    /\ cidType = "number"
    /\ total_processed = 0
    /\ runSkipped = FALSE
    /\ env = [k \in EnvVars |-> "set"]
    /\ exitMsg = {}

(***************************************************************************)
(* sync.py: the Canvas id on its way to the 'Canvas ID' property and to    *)
(* the lookup filter                                                       *)
(***************************************************************************)
MaxId == 5

\* a.get("id") as the JSON of Canvas gives it: an integer, or a string of
\* digits.
RawIds == [kind : {"int", "str"}, n : 1..MaxId]

\* make_number: the value as it is.
MakeNumber(n) == [number |-> n]

\* int(canvas_id)
IntOf(x) == [kind |-> "int", n |-> x.n]

\* The ID filter of notion_query_by_unique.
IdFilter(canvas_id) == [property |-> "Canvas ID", equals |-> IntOf(canvas_id)]

InitIds ==
    /\ engine = "ids"
    /\ args \in {[canvas_id |-> x] : x \in RawIds}
    /\ pages = <<>>
    /\ calls = <<>>
    /\ ret = NONE
    /\ pc = "idle"
    /\ pos = 0
    /\ locals = NONE
    /\ AtRest

\* sync() creates the page of the record: build_props puts make_number of
\* the id under 'Canvas ID'.  A number property takes a number; what the
\* destination does with a string is left open: it rejects the page or
\* stores what was sent.
IdCreate ==
    /\ engine = "ids"
    /\ pc = "idle"
    /\ \E sent \in {MakeNumber(args.canvas_id)} :
       \E accept \in (IF sent.number.kind = "int" THEN {TRUE} ELSE BOOLEAN) :
          /\ calls' = <<Call("create", IF accept THEN "ok" ELSE "error",
                             IF accept THEN 1 ELSE 0, sent)>>
          /\ pages' = IF accept THEN <<[cid |-> sent.number]>> ELSE <<>>
          /\ pc' = IF accept THEN "created" ELSE "aborted"
    /\ UNCHANGED <<engine, args, ret, pos, locals>>
    /\ UNCHANGED restVars

\* A later run looks an id up: the pages whose number equals the filter's.
IdLookup ==
    /\ engine = "ids"
    /\ pc = "created"
    /\ \E x \in RawIds :
       \E f \in {IdFilter(x)} :
          /\ ret' = [canvas_id |-> x, filter |-> f,
                     results |-> {i \in DOMAIN pages : pages[i].cid = f.equals}]
          /\ pc' = "done"
    /\ UNCHANGED <<engine, args, pages, calls, pos, locals>>
    /\ UNCHANGED restVars

NextIds == IdCreate \/ IdLookup

SpecIds == InitIds /\ [][NextIds]_vars

(***************************************************************************)
(* utils.py: retry(exceptions, tries, delay, backoff), one call of the     *)
(* wrapper around a function fn                                            *)
(***************************************************************************)
MaxTries == 4

\* The decorator's arguments.  delay and backoff are in tenths: 10 and 20
\* for the 1.0 and 2.0 of query_by_canvas_id and _get, 8 and 18 for the 0.8
\* and 1.8 of query_by_title_and_date.  tries may be any integer.
RetryArgs == [tries : (-1)..MaxTries, delay : {8, 10}, backoff : {18, 20}]

\* What one call of fn does: it returns, raises an exception listed in
\* 'exceptions', or raises another one.
FnOutcomes == {"ok", "listed", "other"}

\* A duration in tenths of a second, as a fraction.
Tenths(n) == [num |-> n, den |-> 1]

\* A variant that adds the backoff to the delay.
TimesBackoffAdded(d, b) == [num |-> d.num + b * d.den, den |-> d.den]

\* _delay *= backoff
TimesBackoff(d, b) == [num |-> d.num * b, den |-> d.den * 10]

\* A variant of the loop condition that runs the loop once more.
InLoopOnceMore(t) == t > 0

\* while _tries > 1
InLoop(t) == t > 1

\* The exception attempt k raised.  (A result is the number of the attempt
\* that returned it, 0 while there is none.)
Exc(type, k) == [type |-> type, attempt |-> k]

\* The calls of fn among the events of calls.
Attempts(cs) == {i \in DOMAIN cs : cs[i].op = "fn"}
Sleeps(cs) == {i \in DOMAIN cs : cs[i].op = "sleep"}

InitRetry ==
    /\ engine = "retry"
    /\ args \in RetryArgs
    /\ locals = [tries |-> args.tries, delay |-> Tenths(args.delay)]
    /\ pages = <<>>
    /\ calls = <<>>
    /\ ret = [result |-> 0]
    /\ pc = "running"
    /\ pos = 0
    /\ AtRest

\* One turn of the loop: fn is called inside the try; its result is
\* returned, a listed exception is followed by the sleep and the two
\* updates, another exception leaves the wrapper.
RetryAttempt ==
    /\ engine = "retry"
    /\ pc = "running"
    /\ InLoop(locals.tries)
    /\ \E o \in FnOutcomes :
          /\ pos' = pos + 1
          /\ calls' = calls \o
                (IF o = "listed"
                 THEN <<Call("fn", o, 0, NoProps), Call("sleep", "ok", 0, locals.delay)>>
                 ELSE <<Call("fn", o, 0, NoProps)>>)
          /\ locals' = IF o = "listed"
                       THEN [tries |-> locals.tries - 1,
                             delay |-> TimesBackoff(locals.delay, args.backoff)]
                       ELSE locals
          /\ pc' = CASE o = "ok"     -> "returned"
                     [] o = "listed" -> "running"
                     [] OTHER        -> "raised"
          /\ ret' = CASE o = "ok"     -> [result |-> pos + 1]
                      [] o = "listed" -> ret
                      [] OTHER        -> Exc(o, pos + 1)
    /\ UNCHANGED <<engine, args, pages>>
    /\ UNCHANGED restVars

\* After the loop: 'return fn(*args, **kwargs)' outside any try.
RetryLast ==
    /\ engine = "retry"
    /\ pc = "running"
    /\ ~InLoop(locals.tries)
    /\ \E o \in FnOutcomes :
          /\ pos' = pos + 1
          /\ calls' = Append(calls, Call("fn", o, 0, NoProps))
          /\ pc' = IF o = "ok" THEN "returned" ELSE "raised"
          /\ ret' = IF o = "ok" THEN [result |-> pos + 1] ELSE Exc(o, pos + 1)
    /\ UNCHANGED <<engine, args, pages, locals>>
    /\ UNCHANGED restVars

NextRetry == RetryAttempt \/ RetryLast

SpecRetry == InitRetry /\ [][NextRetry]_vars

\* fn returns or raises whenever it is called, and the wrapper goes on.
SpecRetryLive == SpecRetry /\ WF_vars(NextRetry)

(***************************************************************************)
(* notion_api.py: get_flexible_schema, the choice of due_date_prop_text    *)
(***************************************************************************)
MaxProps == 3

date_candidates == <<"Date", "Due date", "Due Date", "Calendar Date", "Calendar">>

\* db["properties"]: the properties in the order the destination gives
\* them, each with its name and type; no two have the same name.
PropNames == {"Date", "Due Date", "Calendar", "Notes"}
PropTypes == {"rich_text", "date", "select"}
Databases ==
    {db \in UNION {[1..n -> [name : PropNames, type : PropTypes]] : n \in 0..MaxProps} :
        \A i, j \in DOMAIN db : i # j => db[i].name # db[j].name}

\* A variant of _prop_if_type that does not look at the type.
PropIfTypeAny(db, name, want_types) ==
    IF \E i \in DOMAIN db : db[i].name = name THEN name ELSE NONE

\* _prop_if_type: the name when the property exists and is of a wanted
\* type, else None.
PropIfType(db, name, want_types) ==
    IF \E i \in DOMAIN db : db[i].name = name /\ db[i].type \in want_types
    THEN name ELSE NONE

\* The inner loop: the first rich_text property of the database, when there
\* is one, replaces the value so far.
LastResort(db, sofar) ==
    IF \E i \in DOMAIN db : db[i].type = "rich_text"
    THEN db[First({i \in DOMAIN db : db[i].type = "rich_text"})].name
    ELSE sofar

InitTextProp ==
    /\ engine = "schema"
    /\ args \in {[db |-> db] : db \in Databases}
    /\ ret = NONE
    /\ pc = "running"
    /\ pos = 1
    /\ pages = <<>>
    /\ calls = <<>>
    /\ locals = NONE
    /\ AtRest

\* One turn of 'for nm in date_candidates': a candidate of type rich_text
\* is taken and ends the loop; else the inner loop runs and the outer loop
\* goes on with the next candidate.
TextPropStep ==
    /\ engine = "schema"
    /\ pc = "running"
    /\ pos <= Len(date_candidates)
    /\ IF PropIfType(args.db, date_candidates[pos], {"rich_text"}) # NONE
       THEN /\ ret' = date_candidates[pos]
            /\ pc' = "done"
            /\ pos' = pos
       ELSE /\ ret' = LastResort(args.db, ret)
            /\ pc' = IF pos = Len(date_candidates) THEN "done" ELSE "running"
            /\ pos' = pos + 1
    /\ UNCHANGED <<engine, args, pages, calls, locals>>
    /\ UNCHANGED restVars

NextTextProp == TextPropStep

SpecTextProp == InitTextProp /\ [][NextTextProp]_vars

(***************************************************************************)
(* sync.py: the options of one record, from the record to its page write   *)
(***************************************************************************)
MaxDays == 8
HoursPerDay == 24

\* due_at of an assignment: None, or an instant given by its distance from
\* NOW_UTC in hours.
DueHours == ((-2)..(-1)) \cup {h \in 0..(MaxDays * HoursPerDay + 2) : h % HoursPerDay \in {0, 1, 2, 6}}
Dues == {[dated |-> FALSE, h |-> 0]} \cup {[dated |-> TRUE, h |-> h] : h \in DueHours}

\* days_until: the distance in days, as a fraction.
DaysUntil(due) == [num |-> due.h, den |-> HoursPerDay]

\* d < n and d <= n for a fraction d and an integer n.
FracLt(d, n) == d.num < n * d.den
FracLe(d, n) == d.num <= n * d.den

\* calc_priority
CalcPriority(due) ==
    IF ~due.dated THEN "Later"
    ELSE CASE FracLt(DaysUntil(due), 0) -> "Overdue"
           [] FracLe(DaysUntil(due), 2) -> "High"
           [] FracLe(DaysUntil(due), 5) -> "Medium"
           [] FracLe(DaysUntil(due), 7) -> "Low"
           [] OTHER                     -> "Later"

\* The assignment as infer_assignment_type reads it: quiz_id present or
\* not, and the name by the keyword its lower case contains ("plain" when
\* it contains none).
TypeKeywords == {"exam", "midterm", "final", "test"}
NameKinds == {"final", "test", "plain"}

\* infer_assignment_type
InferAssignmentType(a) ==
    IF a.quiz THEN "Quiz"
    ELSE IF a.name \in TypeKeywords THEN "Test"
    ELSE "Assignment"

\* The inputs of one iteration: the course's name and teachers, and the
\* assignment.
OptionInputs ==
    [cls : {NONE, "", "Math"}, teachers : {<<>>, <<"">>, <<"Ms T">>},
     quiz : BOOLEAN, name : NameKinds, submitted : BOOLEAN, due : Dues]

\* meta["teachers"][0] if meta.get("teachers") else "Unknown Teacher"
TeacherName(teachers) == IF teachers = <<>> THEN "Unknown Teacher" ELSE teachers[1]

\* The record of sync(), the fields that carry option names.
OptionRecord(a) ==
    [cls |-> a.cls, teacher |-> TeacherName(a.teachers),
     assignment_type |-> InferAssignmentType(a),
     status |-> IF a.submitted THEN "Completed" ELSE "Not started",
     priority |-> CalcPriority(a.due)]

\* Python's truth of a string or None.
Truthy(s) == s # NONE /\ s # ""

\* A variant of ensure_base_options without the calls for 'Tags'.
EnsureBaseOptionsNoTags(class_name, teacher_name) ==
    <<[prop |-> "Status", names |-> <<"Not started", "Started", "Completed">>],
      [prop |-> "Assignment Type", names |-> <<"Quiz", "Assignment", "Test">>],
      [prop |-> "Priority", names |-> <<"Overdue", "High", "Medium", "Low", "Later">>]>>
    \o (IF Truthy(class_name) THEN <<[prop |-> "Class", names |-> <<class_name>>]>> ELSE <<>>)
    \o (IF Truthy(teacher_name) THEN <<[prop |-> "Teacher", names |-> <<teacher_name>>]>> ELSE <<>>)

\* ensure_base_options: the calls of ensure_select_options it makes, in
\* order, each with its property and the option names it passes.
EnsureBaseOptions(class_name, teacher_name) ==
    <<[prop |-> "Status", names |-> <<"Not started", "Started", "Completed">>],
      [prop |-> "Assignment Type", names |-> <<"Quiz", "Assignment", "Test">>],
      [prop |-> "Priority", names |-> <<"Overdue", "High", "Medium", "Low", "Later">>]>>
    \o (IF Truthy(class_name)
        THEN <<[prop |-> "Class", names |-> <<class_name>>],
               [prop |-> "Tags", names |-> <<class_name>>]>>
        ELSE <<>>)
    \o (IF Truthy(teacher_name)
        THEN <<[prop |-> "Teacher", names |-> <<teacher_name>>],
               [prop |-> "Tags", names |-> <<teacher_name>>]>>
        ELSE <<>>)

\* make_select: None for a falsy value; build_props then writes the value
\* as rich_text, which carries no option.
MakeSelect(prop, val) == IF Truthy(val) THEN {<<prop, val>>} ELSE {}

\* make_multi_select: the truthy values.
MakeMultiSelect(prop, vals) == {<<prop, v>> : v \in {x \in vals : Truthy(x)}}

\* build_props: the option names of the payload, each with its property.
PayloadOptions(r) ==
    MakeSelect("Class", r.cls) \cup MakeSelect("Teacher", r.teacher)
    \cup MakeMultiSelect("Tags", {r.cls, r.teacher})
    \cup MakeSelect("Assignment Type", r.assignment_type)
    \cup MakeSelect("Status", r.status)
    \cup MakeSelect("Priority", r.priority)

\* The state after sync() built the record of one assignment.
InitRecordOptions ==
    /\ engine = "options"
    /\ args \in OptionInputs
    /\ locals = OptionRecord(args)
    /\ calls = <<>>
    /\ pos = 1
    /\ pc = "ensuring"
    /\ ret = NONE
    /\ pages = <<>>
    /\ AtRest

\* One call of ensure_select_options made by ensure_base_options; a failed
\* request raises and leaves sync().
OptionsEnsure ==
    /\ engine = "options"
    /\ pc = "ensuring"
    /\ pos <= Len(EnsureBaseOptions(locals.cls, locals.teacher))
    /\ \E res \in {"ok", "error"} :
        /\ calls' = Append(calls, [op |-> "ensure", res |-> res,
                                   prop |-> EnsureBaseOptions(locals.cls, locals.teacher)[pos].prop,
                                   names |-> EnsureBaseOptions(locals.cls, locals.teacher)[pos].names,
                                   options |-> {}])
        /\ pc' = IF res = "error" THEN "raised" ELSE "ensuring"
        /\ ret' = IF res = "error" THEN "raised" ELSE ret
    /\ pos' = pos + 1
    /\ UNCHANGED <<engine, args, locals, pages>>
    /\ UNCHANGED restVars

\* build_props, the lookup and the create or update call, after
\* ensure_base_options returned.
OptionsWrite ==
    /\ engine = "options"
    /\ pc = "ensuring"
    /\ pos > Len(EnsureBaseOptions(locals.cls, locals.teacher))
    /\ \E qry \in {"ok", "error"} :
        IF qry = "error"
        THEN /\ calls' = calls
             /\ ret' = "raised"
             /\ pc' = "raised"
        ELSE /\ calls' = Append(calls, [op |-> "write", res |-> "ok", prop |-> NONE,
                                        names |-> <<>>, options |-> PayloadOptions(locals)])
             /\ ret' = "written"
             /\ pc' = "done"
    /\ UNCHANGED <<engine, args, locals, pages, pos>>
    /\ UNCHANGED restVars

NextOptions == OptionsEnsure \/ OptionsWrite

SpecOptions == InitRecordOptions /\ [][NextOptions]_vars

(***************************************************************************)
(* ensure_select_options (sync.py) and ensure_taxonomy (notion_api.py)     *)
(* beside the end user, who edits the same property in Notion              *)
(***************************************************************************)
\* One ensure call: which function makes it, the names it wants and the
\* type it expects of the property.  ensure_base_options passes at
\* least one name and no empty one.
EnsureCalls ==
    {c \in [variant : {"sync", "notion_api"}, want : WantedNames, kind : SelectKinds] :
        c.variant = "sync" => (c.want # <<>> /\ "" \notin Range(c.want))}

\* The property in the destination before the call.
RemoteOptions == {[kind |-> k, opts |-> o] : k \in SelectKinds, o \in DistinctSeqs(OptNames, MaxOpts)}

InitEnsureRace ==
    /\ engine = "race"
    /\ args \in EnsureCalls
    /\ options \in RemoteOptions
    /\ locals = [read |-> FALSE, db |-> BareOptions("upsert")]
    /\ calls = <<>>
    /\ pos = 1
    /\ pc = "running"
    /\ ret = NONE
    /\ pages = <<>>
    /\ schema = {}
    /\ created = {}
    /\ upstream = <<>>
    /\ base = [ok |-> FALSE, pages |-> <<>>]
    /\ runCreate = FALSE
    /\ cidType = "number"
    /\ total_processed = 0
    /\ runSkipped = FALSE
    /\ env = [k \in EnvVars |-> "set"]
    /\ exitMsg = {}

\* notion_get_database / retrieve_db: the call reads the schema.
EnsureRead ==
    /\ engine = "race"
    /\ pc = "running"
    /\ ~locals.read
    /\ locals' = [read |-> TRUE, db |-> options]
    /\ UNCHANGED <<engine, args, options, calls, pos, pc, ret, pages>>
    /\ UNCHANGED <<schema, created, upstream, base, runCreate, cidType,
                   total_processed, runSkipped, env, exitMsg>>

\* The end user adds an option to the property in Notion.
UserAddsOption ==
    /\ engine = "race"
    /\ pc = "running"
    /\ Len(options.opts) <= MaxOpts
    /\ \E n \in OptNames \ Range(options.opts) :
          options' = [options EXCEPT !.opts = Append(@, n)]
    /\ UNCHANGED <<engine, args, locals, calls, pos, pc, ret, pages>>
    /\ UNCHANGED <<schema, created, upstream, base, runCreate, cidType,
                   total_processed, runSkipped, env, exitMsg>>

\* The rest of the call: the option list is computed from the schema that
\* was read, and the schema update, when one is sent and accepted, replaces
\* the list of the destination.
EnsureWrite ==
    /\ engine = "race"
    /\ pc = "running"
    /\ locals.read
    /\ \E res \in {"ok", "error"} :
       \E out \in {IF args.variant = "sync"
                   THEN EnsureSelectOptions(locals.db, args.want, res)
                   ELSE EnsureSelectOptionsFor(locals.db, args.want, args.kind, res)} :
          /\ calls' = out.calls
          /\ options' = IF out.calls # <<>> /\ res = "ok"
                        THEN [options EXCEPT !.opts = out.options.opts]
                        ELSE options
          /\ ret' = IF out.raised THEN "raised" ELSE "ensured"
    /\ pc' = "done"
    /\ UNCHANGED <<engine, args, locals, pos, pages>>
    /\ UNCHANGED <<schema, created, upstream, base, runCreate, cidType,
                   total_processed, runSkipped, env, exitMsg>>

NextEnsureRace == EnsureRead \/ UserAddsOption \/ EnsureWrite

SpecEnsureRace == InitEnsureRace /\ [][NextEnsureRace]_vars

(***************************************************************************)
(* Helpers of the properties                                               *)
(***************************************************************************)
\* This step is one invocation: upsert_page, or sync()'s handling of one
\* assignment.
Invoked ==
    /\ calls' # <<>>
    /\ args'.rec.name # NONE
    /\ ~(pc = "running" /\ pc' = "done")

\* The indices of the page writes of an invocation.
Writes(cs) == {i \in DOMAIN cs : cs[i].op \in {"update", "create"}}

\* No call of the invocation ended in an exception that the destination or
\* the network injected.
NoFault(cs) == \A i \in DOMAIN cs : cs[i].res \in {"hit", "miss", "ok", "invalid"}

\* The payload the caller built for the record carries its Canvas ID.
CarriesId(ar) ==
    IF engine = "upsert" THEN "cid" \in DOMAIN ar.a.props ELSE ar.rec.id # NONE

\* The caller named the title property, so upsert_page makes its fallback
\* lookup; sync() always has the record's name.
PassesTitle(ar) == engine = "upsert" => ar.a.title_prop # NONE

\* The indices of the schema updates that set the option list.
OptionWrites(cs) ==
    {i \in DOMAIN cs : cs[i].op = "update_db" /\ cs[i].sent.prop = "Class"}

\* This step is one taxonomy step: a call of ensure_taxonomy, or sync()'s
\* handling of one assignment, which starts with ensure_base_options.
Ensured == (engine = "taxonomy" /\ pc = "loaded") \/ (engine = "sync" /\ Invoked)

\* The option names the taxonomy step was asked for.
Wanted(ar) ==
    IF engine = "sync" THEN {ar.rec.cls} ELSE {n \in Range(ar.want) : n # ""}

IsPrefix(s, t) == Len(s) <= Len(t) /\ SubSeq(t, 1, Len(s)) = s

PagesOf(id) == {i \in DOMAIN pages : pages[i].cid = id}

\* Page p holds due day d, in the date property or in the text property.
SameDue(p, d) == d # NONE /\ (DateEquals(p.due, d) \/ p.text = Mdy(d))

(***************************************************************************)
(* C1  No duplicates.  Over any sequence of invocations whose payloads      *)
(* carry Canvas ID = the record's id, no Canvas id gets a second           *)
(* successful CREATE, and the destination holds exactly one page for every *)
(* Canvas id a page was created for.                                       *)
(***************************************************************************)
C1_NoDuplicates ==
    /\ [](\A id \in created : Cardinality(PagesOf(id)) = 1)
    /\ [][(Invoked /\ ret' = "created" /\ CarriesId(args'))
          => args'.rec.id \notin created]_vars

(***************************************************************************)
(* C2  Idempotence of a full run of sync().  In a run that starts right    *)
(* after a completed run over the same assignments, no CREATE call is      *)
(* issued, every record issues at most one UPDATE call, and when the run   *)
(* completes every page holds the values the first run left.               *)
(***************************************************************************)
C2_RunIdempotent ==
    (engine = "sync" /\ base.ok) =>
        /\ ~runCreate
        /\ Cardinality({i \in DOMAIN calls : calls[i].op = "update"}) <= 1
        /\ pc = "done" => pages = base.pages

\* A second run over two assignments has completed, its last record updated.
C2_Witness ==
    /\ engine = "sync" /\ base.ok /\ pc = "done"
    /\ Len(upstream) = 2 /\ Len(pages) = 2
    /\ ret = "updated"

(***************************************************************************)
(* C3  Exactly one mutating page call per record: an invocation of         *)
(* upsert_page issues at most one of pages.update / pages.create, and      *)
(* exactly one when it returns normally.                                   *)
(***************************************************************************)
C3_OneMutatingCall ==
    engine = "upsert" =>
        /\ Cardinality(Writes(calls)) <= 1
        /\ ret \in {"updated", "created"} => Cardinality(Writes(calls)) = 1

(***************************************************************************)
(* C4  Fallback before create: for a record with a Canvas id, a CREATE is  *)
(* issued only after the lookup by Canvas ID returned no match and the     *)
(* title + due date lookup was then made and returned no match.            *)
(***************************************************************************)
C4_FallbackBeforeCreate ==
    \A i \in DOMAIN calls :
        (calls[i].op = "create" /\ args.rec.id # NONE /\ PassesTitle(args)) =>
            \E j, k \in 1..(i - 1) :
                /\ j < k
                /\ calls[j].op = "query_id" /\ calls[j].res = "miss"
                /\ calls[k].op = "query_td" /\ calls[k].res = "miss"

(***************************************************************************)
(* C5  Fallback only on a confirmed miss: when the lookup by Canvas ID of  *)
(* upsert_page ends in an error, the invocation issues no fallback query,  *)
(* no UPDATE and no CREATE.                                                *)
(***************************************************************************)
C5_NoFallbackOnIdError ==
    (engine = "upsert"
       /\ \E i \in DOMAIN calls : calls[i].op = "query_id" /\ calls[i].res = "error")
    => /\ \A i \in DOMAIN calls : calls[i].op \notin {"query_td", "update", "create"}
       /\ ret = "raised"

\* The ID lookup failed for a record that the fallback would have matched.
C5_Witness ==
    /\ engine = "upsert"
    /\ \E i \in DOMAIN calls : calls[i].op = "query_id" /\ calls[i].res = "error"
    /\ args.a.title_prop # NONE
    /\ TdHits(pages, args.a) # {}

(***************************************************************************)
(* C6  A fallback lookup that keeps failing is a failure of the record:    *)
(* when the title + date lookup of upsert_page fails on every attempt, the *)
(* invocation ends in an exception and issues no CREATE.                   *)
(***************************************************************************)
C6_FailedFallbackIsFailure ==
    (engine = "upsert"
       /\ \E i \in DOMAIN calls :
              calls[i].op = "query_td" /\ calls[i].res \in {"api", "other"})
    => /\ ret = "raised"
       /\ ~HasCall(calls, "create")

(***************************************************************************)
(* C7  Per-record isolation in sync(): when the lookup, the create or the  *)
(* update call of a record fails and later records remain, the run goes on *)
(* to them.                                                                *)
(***************************************************************************)
C7_RecordIsolation ==
    (engine = "sync"
       /\ pos < Len(upstream)
       /\ \E i \in DOMAIN calls :
              /\ calls[i].op \in {"query_id", "query_td", "create", "update"}
              /\ calls[i].res = "error")
    => pc = "running"

(***************************************************************************)
(* C8  Fallback correctness: an invocation for a record without a Canvas   *)
(* id, no call of which the destination fails, when a page has the         *)
(* record's title and its due date, updates such a page and issues no      *)
(* CREATE.                                                                 *)
(***************************************************************************)
C8_FallbackUpdates ==
    [][(/\ Invoked
        /\ args'.rec.id = NONE
        /\ PassesTitle(args')
        /\ NoFault(calls')
        /\ \E p \in DOMAIN pages :
               pages[p].title = args'.rec.name /\ SameDue(pages[p], args'.rec.due))
       => /\ ~HasCall(calls', "create")
          /\ \E i \in DOMAIN calls' :
                 /\ calls'[i].op = "update" /\ calls'[i].res = "ok"
                 /\ pages[calls'[i].page].title = args'.rec.name
                 /\ SameDue(pages[calls'[i].page], args'.rec.due)]_vars

(***************************************************************************)
(* C9  The fallback matches on title and due date: the page the fallback   *)
(* lookup of upsert_page selects has the record's title and the record's   *)
(* due date; an undated record, or a schema without a due-date property,   *)
(* selects no page.                                                        *)
(***************************************************************************)
C9_FallbackTitleAndDate ==
    [][(engine = "upsert" /\ Invoked)
       => \A i \in DOMAIN calls' :
             (calls'[i].op = "query_td" /\ calls'[i].res = "hit")
             => /\ pages[calls'[i].page].title = args'.rec.name
                /\ SameDue(pages[calls'[i].page], args'.rec.due)]_vars

(***************************************************************************)
(* C10  Self-healing: the update upsert_page sends to a page the fallback  *)
(* lookup found writes Canvas ID = canvas_id, whenever the caller's        *)
(* payload carries the Canvas ID.                                          *)
(***************************************************************************)
C10_FallbackAttachesId ==
    (engine = "upsert" /\ args.rec.id # NONE)
    => \A i \in DOMAIN calls :
          (/\ i > 1
           /\ calls[i].op = "update"
           /\ calls[i - 1].op = "query_td" /\ calls[i - 1].res = "hit"
           /\ "cid" \in DOMAIN args.a.props)
          => /\ "cid" \in DOMAIN calls[i].sent
             /\ calls[i].sent["cid"] = [type |-> "number", v |-> args.rec.id]

(***************************************************************************)
(* C11  Create/update date-null asymmetry: for a record with no due date,  *)
(* no CREATE payload holds a property whose value is a null date, and      *)
(* every UPDATE payload holds the due-date property the caller built, as   *)
(* an explicit null date.                                                  *)
(***************************************************************************)
C11_DateNullAsymmetry ==
    args.rec.due = NONE =>
        \A i \in DOMAIN calls :
            /\ calls[i].op = "create"
                  => \A k \in DOMAIN calls[i].sent : calls[i].sent[k] # NullDate
            /\ (calls[i].op = "update"
                   /\ (engine = "upsert" => "due" \in DOMAIN args.a.props))
                  => /\ "due" \in DOMAIN calls[i].sent
                     /\ calls[i].sent["due"] = NullDate

(***************************************************************************)
(* C12  Additive taxonomy: every option list a taxonomy step sends starts  *)
(* with the options of the schema it read, in their order, followed only   *)
(* by names that were not options; no step removes an option.              *)
(***************************************************************************)
C12_AdditiveTaxonomy ==
    [][/\ Ensured =>
            \A i \in OptionWrites(calls') :
                /\ IsPrefix(options.opts, calls'[i].sent.options)
                /\ \A j \in (Len(options.opts) + 1)..Len(calls'[i].sent.options) :
                       calls'[i].sent.options[j] \notin Range(options.opts)
       /\ Range(options.opts) \subseteq Range(options'.opts)]_vars

\* A schema update that added an option after two existing ones was accepted.
C12_Witness ==
    \E i \in OptionWrites(calls) :
        /\ calls[i].res = "ok"
        /\ Len(calls[i].sent.options) >= 3
        /\ options.opts = calls[i].sent.options

(***************************************************************************)
(* C13  Taxonomy idempotence: a taxonomy step whose wanted option names    *)
(* all exist on the property sends no schema update.                       *)
(***************************************************************************)
C13_TaxonomyIdempotent ==
    [][(Ensured /\ Wanted(args') \subseteq Range(options.opts))
       => OptionWrites(calls') = {}]_vars

(***************************************************************************)
(* C14  A rejected schema update of the taxonomy step is swallowed: the    *)
(* step raises nothing, and sync() goes on to look the record up.          *)
(***************************************************************************)
C14_SchemaWriteFailureSwallowed ==
    \A i \in OptionWrites(calls) :
        calls[i].res = "error"
        => /\ ret # "raised"
           /\ engine = "sync"
                 => \E j \in DOMAIN calls :
                       j > i /\ calls[j].op \in {"query_id", "query_td"}

(***************************************************************************)
(* C15  Schema writes are additive: no step changes the type of a          *)
(* property the database has, or removes one; an existing 'Canvas ID'      *)
(* property of another type than number keeps its type.                    *)
(***************************************************************************)
C15_SchemaAdditive ==
    [][/\ cidType # NONE => cidType' = cidType
       /\ options.kind # NONE => options'.kind = options.kind
       /\ schema \subseteq schema']_vars

(***************************************************************************)
(* C20  Missing identifier property without permission to add it: when     *)
(* the schema update of ensure_canvas_id_property is rejected inside the   *)
(* lookup by Canvas ID of upsert_page, the invocation raises nothing and   *)
(* goes on to the title + date lookup.                                     *)
(***************************************************************************)
C20_MissingIdFieldFallsBack ==
    \A i \in DOMAIN calls :
        (/\ engine = "upsert"
         /\ calls[i].op = "update_db" /\ calls[i].sent.prop = "Canvas ID"
         /\ calls[i].res = "error"
         /\ args.rec.name # NONE
         /\ PassesTitle(args))
        => /\ ret # "raised"
           /\ \E j \in DOMAIN calls : j > i /\ calls[j].op = "query_td"

(***************************************************************************)
(* C16  Schema-missing tolerance: every key of the payload sync() builds   *)
(* and sends for a record is a property the database has; with a schema    *)
(* without 'Teacher' the payload has no 'Teacher' key.                     *)
(***************************************************************************)
C16_PayloadWithinSchema ==
    engine = "sync" =>
        \A i \in Writes(calls) : DOMAIN calls[i].sent \subseteq SyncHave

C19_UnauthorizedIsFatal ==
    /\ (engine = "sync" /\ args.got401)
       => /\ pc = "aborted"
          /\ ret = "unauthorized"
          /\ calls = <<>>
    /\ (engine = "sync" /\ ret = "course_skipped")
       => pc # "aborted" /\ ~args.got401

\* The run ended on a 401 at its second assignment, after the first was written.
C19_Witness ==
    /\ engine = "sync" /\ args.got401 /\ pc = "aborted"
    /\ pos = 2 /\ total_processed = 1 /\ Len(upstream) = 2

(***************************************************************************)
(* C18  Pre-flight configuration check: when one of the four variables is  *)
(* unset or empty, the program makes no call and goes nowhere but to its   *)
(* exit, and the exit message names every variable that is unset or empty. *)
(***************************************************************************)
C18_PreflightCheck ==
    MissingEnv(env) # {}
    => /\ calls = <<>>
       /\ pc \in {"idle", "exit"}
       /\ pc = "exit" => MissingEnv(env) \subseteq exitMsg

\* sync.py left at its start with one variable unset and one empty, both named.
C18_Witness ==
    /\ engine = "sync" /\ pc = "exit"
    /\ \E k, m \in exitMsg : env[k] = "unset" /\ env[m] = "empty"
    /\ exitMsg = MissingEnv(env)

(***************************************************************************)
(* C21  Identifier encoding agreement: the value build_props writes to     *)
(* 'Canvas ID' for a record id is the value, in the same encoding, that    *)
(* the lookup filter holds for that id, and the page created for an id is  *)
(* returned by the lookup of that id.                                      *)
(***************************************************************************)
C21_IdEncodingAgreement ==
    engine = "ids"
    => /\ \A i \in DOMAIN calls :
              calls[i].sent.number = IdFilter(args.canvas_id).equals
       /\ (pc = "done" /\ ret.canvas_id = args.canvas_id) => ret.results # {}

\* The page of an integer id was created and the lookup of that id returned it.
C21_Witness ==
    /\ engine = "ids" /\ pc = "done"
    /\ args.canvas_id.kind = "int"
    /\ ret.canvas_id = args.canvas_id /\ ret.results = {1}

(***************************************************************************)
(* C22  Run summary count: a run of sync() starts its count at 0, every    *)
(* step adds to it the number of create and update calls of the step that  *)
(* returned successfully (none for a record outside the window or for a    *)
(* course that could not be fetched), and the end of the run reports the   *)
(* count as it then is.                                                    *)
(***************************************************************************)
C22_RunSummaryCount ==
    [][engine = "sync" =>
         /\ (pc # "running" /\ pc' \in {"running", "aborted"}) => total_processed' = 0
         /\ (pc = "running" /\ pc' # "done")
            => total_processed' = total_processed +
                 Cardinality({i \in DOMAIN calls' :
                     calls'[i].op \in {"update", "create"} /\ calls'[i].res = "ok"})
         /\ (pc = "running" /\ pc' = "done") => total_processed' = total_processed]_vars

\* A run completed and reports one record, having met two: the other was
\* outside the window or in a course that could not be fetched.
C22_Witness ==
    /\ engine = "sync" /\ pc = "done"
    /\ Len(upstream) = 2 /\ total_processed = 1
    /\ (runSkipped \/ \E i \in DOMAIN upstream : upstream[i].due \in LateDays)

(***************************************************************************)
(* C23  Retry attempt ceiling: the wrapper calls fn at most max(1, tries)  *)
(* times; it returns the result of the first attempt that succeeds and     *)
(* makes no attempt after it; an exception that is not listed leaves the   *)
(* wrapper at once; when every attempt raised a listed exception the       *)
(* exception of the last attempt leaves the wrapper, after max(1, tries)   *)
(* attempts; and the call of the wrapper ends.                             *)
(***************************************************************************)
C23_AttemptCeiling ==
    /\ [](engine = "retry" =>
            /\ Cardinality(Attempts(calls)) <= (IF args.tries > 1 THEN args.tries ELSE 1)
            /\ \A i \in Attempts(calls) : i < Len(calls) => calls[i].res = "listed"
            /\ pc = "running" => \A i \in Attempts(calls) : calls[i].res = "listed"
            /\ pc = "returned" =>
                  /\ calls[Len(calls)].op = "fn" /\ calls[Len(calls)].res = "ok"
                  /\ ret = [result |-> Cardinality(Attempts(calls))]
            /\ pc = "raised" =>
                  /\ calls[Len(calls)].op = "fn" /\ calls[Len(calls)].res # "ok"
                  /\ ret = Exc(calls[Len(calls)].res, Cardinality(Attempts(calls)))
                  /\ calls[Len(calls)].res = "listed" =>
                        Cardinality(Attempts(calls)) = (IF args.tries > 1 THEN args.tries ELSE 1))
    /\ <>(engine = "retry" => pc \in {"returned", "raised"})

\* With tries = 4 every attempt raised a listed exception and the fourth one's left the wrapper.
C23_Witness ==
    /\ engine = "retry" /\ pc = "raised" /\ args.tries = 4
    /\ ret = Exc("listed", 4)

(***************************************************************************)
(* C24  Retry backoff sequence: every sleep comes right after an attempt   *)
(* that raised a listed exception and right before another attempt, never  *)
(* as the last thing the wrapper does; the k-th sleep lasts                *)
(* delay * backoff^(k-1); there are at most tries - 1 sleeps, as many as   *)
(* failed attempts that another attempt followed.                          *)
(***************************************************************************)
C24_BackoffSequence ==
    engine = "retry" =>
        /\ \A i \in Sleeps(calls) :
              /\ i > 1 /\ calls[i - 1].op = "fn" /\ calls[i - 1].res = "listed"
              /\ i < Len(calls) => calls[i + 1].op = "fn"
              /\ i = Len(calls) => pc = "running"
              /\ \E k \in 1..Len(calls) :
                    /\ k = Cardinality({j \in Sleeps(calls) : j <= i})
                    /\ calls[i].sent.num * (10 ^ (k - 1)) =
                          args.delay * (args.backoff ^ (k - 1)) * calls[i].sent.den
        /\ Cardinality(Sleeps(calls)) <= (IF args.tries > 1 THEN args.tries - 1 ELSE 0)
        /\ pc # "running" =>
              Cardinality(Sleeps(calls)) = Cardinality(Attempts(calls)) - 1

\* tries = 4, delay = 1.0, backoff = 2.0: the sleeps were 1, 2 and 4 seconds.
C24_Witness ==
    /\ engine = "retry" /\ pc # "running"
    /\ args = [tries |-> 4, delay |-> 10, backoff |-> 20]
    /\ Cardinality(Sleeps(calls)) = 3
    /\ calls[2].sent = [num |-> 10, den |-> 1]
    /\ calls[4].sent = [num |-> 200, den |-> 10]
    /\ calls[6].sent = [num |-> 4000, den |-> 100]

(***************************************************************************)
(* C25  First match, and only that page: an update goes to the page the    *)
(* lookup before it returned, which is the first of the pages that match   *)
(* the lookup; an invocation changes no page but the one a successful      *)
(* update addressed, and removes none.                                     *)
(***************************************************************************)
C25_FirstMatchOnly ==
    [][Invoked =>
         /\ Len(pages') >= Len(pages)
         /\ \A i \in DOMAIN pages :
               pages'[i] # pages[i]
               => \E j \in DOMAIN calls' :
                     calls'[j].op = "update" /\ calls'[j].res = "ok" /\ calls'[j].page = i
         /\ \A j \in DOMAIN calls' :
               calls'[j].op = "update"
               => /\ j > 1 /\ calls'[j - 1].res = "hit" /\ calls'[j - 1].page = calls'[j].page
                  /\ \E hits \in {IF engine = "sync" THEN NotionQueryByUnique(pages, args'.rec)
                                  ELSE IF calls'[j - 1].op = "query_id"
                                  THEN IdHits(pages, args'.a.canvas_id)
                                  ELSE TdHits(pages, args'.a)} :
                        /\ calls'[j].page \in hits
                        /\ \A k \in hits : calls'[j].page <= k]_vars

\* A lookup by Canvas ID matched two pages; the first was updated, the second left as it was.
C25_Witness ==
    /\ engine = "upsert" /\ Len(pages) = 2
    /\ "a" \in DOMAIN args
    /\ pages[2].cid = args.a.canvas_id
    /\ pages[1] # pages[2]
    /\ \E j \in DOMAIN calls :
          /\ j > 1 /\ calls[j - 1].op = "query_id"
          /\ calls[j].op = "update" /\ calls[j].res = "ok" /\ calls[j].page = 1

(***************************************************************************)
(* C26  Fallback filter shape: with a date property and a text due-date    *)
(* property in the schema, the fallback query of upsert_page returns a     *)
(* page whose title equals the record's and whose due date equals the      *)
(* record's in the date property or in the text property.                  *)
(***************************************************************************)
C26_FallbackFilterShape ==
    [][(/\ engine = "upsert" /\ Invoked
        /\ {"due", "text"} \subseteq schema
        /\ args'.rec.due # NONE)
       => \A j \in DOMAIN calls' :
             (calls'[j].op = "query_td" /\ calls'[j].res \in {"hit", "miss"})
             => \A i \in DOMAIN pages :
                   (/\ pages[i].title = args'.a.title_text
                    /\ (\/ pages[i].due = args'.a.due_str_iso
                        \/ pages[i].text = args'.a.due_str_mdy))
                   => /\ calls'[j].res = "hit"
                      /\ calls'[j].page <= i]_vars

(***************************************************************************)
(* C27  Text due-date column: due_date_prop_text is the first of the       *)
(* candidate names that is a rich_text property of the database when there *)
(* is one; else a rich_text property of the database when there is one;    *)
(* else None.                                                              *)
(***************************************************************************)
C27_TextDateColumn ==
    (engine = "schema" /\ pc = "done")
    => \E cands \in {{k \in DOMAIN date_candidates :
                        \E i \in DOMAIN args.db :
                            /\ args.db[i].name = date_candidates[k]
                            /\ args.db[i].type = "rich_text"}} :
          /\ cands # {} =>
                /\ ret \in {date_candidates[k] : k \in cands}
                /\ \A k \in cands : \E m \in cands : m <= k /\ ret = date_candidates[m]
                /\ \A k \in cands : ret = date_candidates[k] => \A m \in cands : k <= m
          /\ cands = {} =>
                IF \E i \in DOMAIN args.db : args.db[i].type = "rich_text"
                THEN \E i \in DOMAIN args.db :
                        args.db[i].type = "rich_text" /\ ret = args.db[i].name
                ELSE ret = NONE

\* A rich_text property outside the candidates stands before a rich_text
\* candidate that is not the first candidate: the candidate is chosen.
C27_Witness ==
    /\ engine = "schema" /\ pc = "done"
    /\ Len(args.db) >= 2
    /\ args.db[1] = [name |-> "Notes", type |-> "rich_text"]
    /\ args.db[2] = [name |-> "Calendar", type |-> "rich_text"]
    /\ ret = "Calendar"

(***************************************************************************)
(* C28  Options exist before they are used: every option name of the page  *)
(* payload was passed, for its property, to an ensure_select_options call  *)
(* made earlier for the same record; the labels calc_priority and          *)
(* infer_assignment_type gave are among the names ensured for Priority and *)
(* Assignment Type.                                                        *)
(***************************************************************************)
C28_OptionsEnsuredFirst ==
    engine = "options" =>
        /\ \A j \in DOMAIN calls :
              calls[j].op = "write" =>
                 \A o \in calls[j].options :
                    \E i \in 1..(j - 1) :
                        /\ calls[i].op = "ensure"
                        /\ calls[i].res = "ok"
                        /\ calls[i].prop = o[1]
                        /\ o[2] \in Range(calls[i].names)
        /\ \A i \in DOMAIN calls :
              /\ (calls[i].op = "ensure" /\ calls[i].prop = "Priority")
                    => \A d \in Dues : CalcPriority(d) \in Range(calls[i].names)
              /\ (calls[i].op = "ensure" /\ calls[i].prop = "Assignment Type")
                    => \A q \in BOOLEAN, n \in NameKinds :
                          InferAssignmentType([quiz |-> q, name |-> n])
                             \in Range(calls[i].names)

\* A page write whose payload names the class and the teacher under Tags.
C28_Witness ==
    /\ engine = "options" /\ pc = "done"
    /\ calls[Len(calls)].op = "write"
    /\ <<"Tags", "Math">> \in calls[Len(calls)].options
    /\ <<"Tags", "Unknown Teacher">> \in calls[Len(calls)].options
    /\ <<"Priority", "Later">> \in calls[Len(calls)].options

(***************************************************************************)
(* C30  Priority by time until due, as the seeded test events state it: an *)
(* item due within 48 hours is High, within 120 hours Medium, in 6 days    *)
(* (6 days and 2 hours) Medium, in 8 days Low; an undated item is Later.   *)
(***************************************************************************)
C30_SeededPriorities ==
    engine = "options" =>
        /\ ~args.due.dated => locals.priority = "Later"
        /\ (args.due.dated /\ args.due.h \in 0..48) => locals.priority = "High"
        /\ (args.due.dated /\ args.due.h \in 49..120) => locals.priority = "Medium"
        /\ (args.due.dated /\ args.due.h = 6 * HoursPerDay + 2) => locals.priority = "Medium"
        /\ (args.due.dated /\ args.due.h = 8 * HoursPerDay) => locals.priority = "Low"

\* The record of an item due in 6 days and 2 hours has been written.
C30_Witness ==
    /\ engine = "options" /\ pc = "done"
    /\ args.due.dated /\ args.due.h = 6 * HoursPerDay + 2
    /\ <<"Priority", "Low">> \in calls[Len(calls)].options

(***************************************************************************)
(* C29  Taxonomy writes are computed against current remote state: an      *)
(* accepted schema update of an ensure call keeps every option the         *)
(* property has in the destination at the time of the write, whenever it   *)
(* was added.                                                              *)
(***************************************************************************)
C29_NoLostOption ==
    [][(/\ engine = "race"
        /\ pc = "running" /\ pc' = "done"
        /\ calls' # <<>>
        /\ calls'[1].res = "ok")
       => Range(options.opts) \subseteq Range(options'.opts)]_vars

\* The end user added an option after the call read the schema and before
\* it wrote.
C29_Witness ==
    /\ engine = "race"
    /\ pc = "running"
    /\ locals.read
    /\ ~(Range(options.opts) \subseteq Range(locals.db.opts))

====
